---- MODULE Spec2Model ----
(***************************************************************************)
(* analyzeEmotion: an Appwrite function that scores a text with Watson NLU *)
(* and stores the normalised result as one document.                       *)
(*                                                                         *)
(* The repository holds two versions of the handler: src/index.js and      *)
(* src/unnamed/part_000.  Both are modelled; `variant` says which one is   *)
(* deployed in the process.                                                *)
(*                                                                         *)
(* JavaScript strings whose content is processed (the text, environment    *)
(* values) are run-length encoded: a sequence of <<char, count>> runs in    *)
(* normal form (counts > 0, neighbouring runs carry different chars).      *)
(* Other JavaScript values are records [t, n, s]: type tag, number, string.*)
(***************************************************************************)
EXTENDS Integers, Sequences, FiniteSets, TLC

(* ------------------------------ bounds -------------------------------- *)

\* number of invocations the process serves in one behaviour
MaxInvocations == 2

(* ------------------------- JavaScript values -------------------------- *)

Undefined == [t |-> "undefined", n |-> 0, s |-> ""]
Null      == [t |-> "null", n |-> 0, s |-> ""]
NaN       == [t |-> "nan", n |-> 0, s |-> ""]
Num(x)    == [t |-> "number", n |-> x, s |-> ""]
Str(x)    == [t |-> "string", n |-> 0, s |-> x]

\* ToBoolean: undefined, null, NaN, 0 and "" are falsy
Truthy(v) ==
  CASE v.t = "undefined" -> FALSE
    [] v.t = "null"      -> FALSE
    [] v.t = "nan"       -> FALSE
    [] v.t = "number"    -> v.n # 0
    [] v.t = "string"    -> v.s # ""
    [] OTHER             -> TRUE

\* a || b
OrElse(a, b) == IF Truthy(a) THEN a ELSE b

\* typeof v (NaN is a number)
TypeOf(v) == IF v.t = "nan" THEN "number" ELSE v.t

(* --------------------- run-length encoded strings --------------------- *)

Whitespace == {" ", "\n", "\t"}

RECURSIVE StrLen(_)
StrLen(r) == IF r = <<>> THEN 0 ELSE r[1][2] + StrLen(Tail(r))

RECURSIVE DropLeadingWs(_)
DropLeadingWs(r) ==
  IF r = <<>> THEN <<>>
  ELSE IF r[1][1] \in Whitespace THEN DropLeadingWs(Tail(r)) ELSE r

RECURSIVE DropTrailingWs(_)
DropTrailingWs(r) ==
  IF r = <<>> THEN <<>>
  ELSE IF r[Len(r)][1] \in Whitespace
       THEN DropTrailingWs(SubSeq(r, 1, Len(r) - 1))
       ELSE r

\* String.prototype.trim
Trim(r) == DropTrailingWs(DropLeadingWs(r))

\* String.prototype.slice(0, n), n >= 0
RECURSIVE SliceFromStart(_, _)
SliceFromStart(r, n) ==
  IF r = <<>> \/ n <= 0 THEN <<>>
  ELSE IF r[1][2] >= n THEN << <<r[1][1], n>> >>
       ELSE <<r[1]>> \o SliceFromStart(Tail(r), n - r[1][2])

\* the characters of a (short) string, one by one
RECURSIVE Chars(_)
Chars(r) ==
  IF r = <<>> THEN <<>>
  ELSE IF r[1][2] = 1 THEN <<r[1][1]>> \o Chars(Tail(r))
       ELSE <<r[1][1]>> \o Chars(<< <<r[1][1], r[1][2] - 1>> >> \o Tail(r))

Digits == {"0", "1", "2", "3", "4", "5", "6", "7", "8", "9"}

DigitValue(c) ==
  CASE c = "0" -> 0 [] c = "1" -> 1 [] c = "2" -> 2 [] c = "3" -> 3
    [] c = "4" -> 4 [] c = "5" -> 5 [] c = "6" -> 6 [] c = "7" -> 7
    [] c = "8" -> 8 [] c = "9" -> 9

RECURSIVE DecimalValue(_, _)
DecimalValue(cs, acc) ==
  IF cs = <<>> THEN acc
  ELSE DecimalValue(Tail(cs), 10 * acc + DigitValue(cs[1]))

\* Number(str) for strings of whitespace, decimal digits or other letters:
\* blank is 0, an unsigned decimal literal is its value, anything else NaN
StringToNumber(r) ==
  LET cs == Chars(Trim(r)) IN
  IF cs = <<>> THEN Num(0)
  ELSE IF \A k \in 1..Len(cs) : cs[k] \in Digits THEN Num(DecimalValue(cs, 0))
       ELSE NaN


(* -------------------------- program constants ------------------------- *)

\* truncate(text.trim(), 10000)
MaxTextLen == 10000

\* the call is not retried
RetryAttempts_One == 2 - 1

\* withRetry(..., { attempts: 2, delayMs: 600 })
RetryAttempts == 2

RetryDelayMs == 600

\* Number(process.env.WATSON_MINLEN || 8)
DefaultMinLen == 8

ModelTag == Str("watson-nlu-v1")

DefaultLanguage == << <<"e", 1>>, <<"n", 1>> >>

(* ---------------------------- environment ----------------------------- *)

WatsonEnv == {"WATSON_API_KEY", "WATSON_URL"}

ClientEnv == {"APPWRITE_ENDPOINT", "APPWRITE_PROJECT_ID", "APPWRITE_API_KEY"}

HandlerEnv == {"APPWRITE_DATABASE_ID", "APPWRITE_ANALYSIS_COLLECTION_ID"}

RequiredEnv == WatsonEnv \cup ClientEnv \cup HandlerEnv

OptionalEnv == {"WATSON_LANGUAGE", "WATSON_MINLEN"}

EnvNames == RequiredEnv \cup OptionalEnv

\* a value of process.env: undefined or a string
EnvUnset   == [t |-> "undefined", runs |-> <<>>]
EnvStr(r)  == [t |-> "string", runs |-> r]

\* !v for a value of process.env
EnvFalsy(v) == v.t = "undefined" \/ v.runs = <<>>

(* ------------------------------ helpers ------------------------------- *)

Error(name, message) == [name |-> name, message |-> message]

NoError == Error("", <<>>)

\* requireEnv(name) throws: !v || String(v).trim() === ""
requireEnvThrows(e, name) == EnvFalsy(e[name]) \/ Trim(e[name].runs) = <<>>

requireEnvError(name) ==
  Error("Error", <<"Missing environment variable: ", name>>)

\* truncate(str, max)
truncate(str, max) ==
  IF str = <<>> THEN <<>>
  ELSE IF StrLen(str) > max THEN SliceFromStart(str, max) ELSE str

\* a parsed payload: the object's own properties, Undefined when absent
EmptyText == [t |-> "undefined", runs |-> <<>>]

EmptyObject ==
  [t |-> "object", responseId |-> Undefined, questionId |-> Undefined,
   text |-> EmptyText]

\* parseJson(body); body.raw is "undefined", "empty", "malformed" or "json"
parseJson(body) ==
  IF body.raw \in {"undefined", "empty"} THEN EmptyObject
  ELSE IF body.raw = "malformed" THEN EmptyObject
       ELSE body.value

\* const { responseId, questionId = null, text } = value
\* throws a TypeError when value is null; a primitive has no such properties
DestructureThrows(value) == value.t = "null"

DestructureError ==
  Error("TypeError", <<"Cannot destructure property 'responseId' of null">>)

\* const { responseId, questionId, text } = value, without the default
Destructure_NoDefault(value) ==
  IF value.t = "object"
  THEN [responseId |-> value.responseId, questionId |-> value.questionId,
        text |-> value.text]
  ELSE [responseId |-> Undefined, questionId |-> Undefined, text |-> EmptyText]

Destructure(value) ==
  IF value.t = "object"
  THEN [responseId |-> value.responseId,
        questionId |-> IF value.questionId = Undefined THEN Null
                       ELSE value.questionId,
        text |-> value.text]
  ELSE [responseId |-> Undefined, questionId |-> Null, text |-> EmptyText]

\* !responseId || typeof text !== "string" || text.trim() === ""
InvalidPayload(p) ==
  \/ ~Truthy(p.responseId)
  \/ p.text.t # "string"
  \/ Trim(p.text.runs) = <<>>

(* --------------------------- hoisted clients -------------------------- *)

\* a hoisted client: null (made FALSE) or the client built from cfg; built
\* counts the constructions that have been assigned to the variable
NoClient == [made |-> FALSE, cfg |-> <<>>, built |-> 0]

\* getWatson() that assigns the client before its configuration is read
getWatson_AssignsFirst(e, cached) ==
  LET built == [made |-> TRUE, cfg |-> <<e["WATSON_API_KEY"], e["WATSON_URL"]>>,
                built |-> cached.built + 1] IN
  IF cached.made THEN [threw |-> FALSE, err |-> NoError, client |-> cached]
  ELSE IF requireEnvThrows(e, "WATSON_API_KEY")
       THEN [threw |-> TRUE, err |-> requireEnvError("WATSON_API_KEY"),
             client |-> built]
  ELSE IF requireEnvThrows(e, "WATSON_URL")
       THEN [threw |-> TRUE, err |-> requireEnvError("WATSON_URL"),
             client |-> built]
  ELSE [threw |-> FALSE, err |-> NoError, client |-> built]

\* getWatson(): [threw, err, client], client being the cache afterwards
getWatson(e, cached) ==
  IF cached.made THEN [threw |-> FALSE, err |-> NoError, client |-> cached]
  ELSE IF requireEnvThrows(e, "WATSON_API_KEY")
       THEN [threw |-> TRUE, err |-> requireEnvError("WATSON_API_KEY"),
             client |-> cached]
  ELSE IF requireEnvThrows(e, "WATSON_URL")
       THEN [threw |-> TRUE, err |-> requireEnvError("WATSON_URL"),
             client |-> cached]
  ELSE [threw |-> FALSE, err |-> NoError,
        client |-> [made |-> TRUE,
                    cfg |-> <<e["WATSON_API_KEY"], e["WATSON_URL"]>>,
                    built |-> cached.built + 1]]

\* getDB() without the if (!appwriteDB) test: a client is built on every call
getDB_Rebuilds(e, cached) ==
  IF requireEnvThrows(e, "APPWRITE_ENDPOINT")
  THEN [threw |-> TRUE, err |-> requireEnvError("APPWRITE_ENDPOINT"),
        client |-> cached]
  ELSE IF requireEnvThrows(e, "APPWRITE_PROJECT_ID")
  THEN [threw |-> TRUE, err |-> requireEnvError("APPWRITE_PROJECT_ID"),
        client |-> cached]
  ELSE IF requireEnvThrows(e, "APPWRITE_API_KEY")
  THEN [threw |-> TRUE, err |-> requireEnvError("APPWRITE_API_KEY"),
        client |-> cached]
  ELSE [threw |-> FALSE, err |-> NoError,
        client |-> [made |-> TRUE,
                    cfg |-> <<e["APPWRITE_ENDPOINT"], e["APPWRITE_PROJECT_ID"],
                              e["APPWRITE_API_KEY"]>>,
                    built |-> cached.built + 1]]

\* getDB(): [threw, err, client], client being the cache afterwards
getDB(e, cached) ==
  IF cached.made THEN [threw |-> FALSE, err |-> NoError, client |-> cached]
  ELSE IF requireEnvThrows(e, "APPWRITE_ENDPOINT")
       THEN [threw |-> TRUE, err |-> requireEnvError("APPWRITE_ENDPOINT"),
             client |-> cached]
  ELSE IF requireEnvThrows(e, "APPWRITE_PROJECT_ID")
       THEN [threw |-> TRUE, err |-> requireEnvError("APPWRITE_PROJECT_ID"),
             client |-> cached]
  ELSE IF requireEnvThrows(e, "APPWRITE_API_KEY")
       THEN [threw |-> TRUE, err |-> requireEnvError("APPWRITE_API_KEY"),
             client |-> cached]
  ELSE [threw |-> FALSE, err |-> NoError,
        client |-> [made |-> TRUE,
                    cfg |-> <<e["APPWRITE_ENDPOINT"], e["APPWRITE_PROJECT_ID"],
                              e["APPWRITE_API_KEY"]>>,
                    built |-> cached.built + 1]]

(* --------------------------- NLU responses ---------------------------- *)

EmotionNames == {"joy", "sadness", "anger", "fear", "disgust"}

\* {} : no own properties
NoEmotions == [k \in EmotionNames |-> Undefined]

\* null
NoSentiment == [present |-> FALSE, score |-> Undefined, label |-> Undefined]

\* analysisResult?.result?.emotion?.document?.emotion || {}
\* (r.emotion.present is FALSE when any link of the chain is missing)
ExtractEmotions(r) ==
  IF r.hasResult /\ r.emotion.present THEN r.emotion.scores ELSE NoEmotions

\* analysisResult?.result?.sentiment?.document || null
ExtractSentiment(r) ==
  IF r.hasResult /\ r.sentiment.present THEN r.sentiment ELSE NoSentiment

\* Number(v) for the values a score takes here
ToNumber(v) ==
  CASE v.t = "number"    -> v
    [] v.t = "null"      -> Num(0)
    [] OTHER             -> NaN

\* Number(emotions.k), without the || 0
Score_NoDefault(emotions, k) == ToNumber(emotions[k])

\* Number(emotions.k || 0)
Score(emotions, k) == ToNumber(OrElse(emotions[k], Num(0)))

\* typeof sentimentDoc?.score === "number" ? sentimentDoc.score : 0
SentimentScore(sd) == IF TypeOf(sd.score) = "number" THEN sd.score ELSE Num(0)

\* sentimentDoc?.label || "neutral"
SentimentLabel(sd) == OrElse(sd.label, Str("neutral"))

\* new Date().toISOString() at instant c
Iso(c) == [t |-> "string", n |-> c, s |-> "ISO-8601"]

(* ------------------------------ records ------------------------------- *)

\* src/index.js: analysisData
AnalysisDataIndex(l, emotions, sd, now) ==
  [responseId |-> l.responseId,
   questionId |-> l.questionId,
   joy |-> Score(emotions, "joy"),
   sadness |-> Score(emotions, "sadness"),
   anger |-> Score(emotions, "anger"),
   fear |-> Score(emotions, "fear"),
   disgust |-> Score(emotions, "disgust"),
   sentiment |-> SentimentScore(sd),
   sentiment_label |-> SentimentLabel(sd),
   model |-> ModelTag,
   processedAt |-> Iso(now)]

\* src/unnamed/part_000: the document of the full analysis
AnalysisDataPart(l, emotions, sd) ==
  [responseId |-> l.responseId,
   questionId |-> l.questionId,
   joy |-> Score(emotions, "joy"),
   sadness |-> Score(emotions, "sadness"),
   anger |-> Score(emotions, "anger"),
   fear |-> Score(emotions, "fear"),
   disgust |-> Score(emotions, "disgust"),
   sentiment |-> SentimentScore(sd),
   sentiment_label |-> SentimentLabel(sd),
   model |-> ModelTag,
   processedAt |-> l.nowIso,
   createdAt |-> l.nowIso,
   textLen |-> Num(StrLen(l.cleanText)),
   lang |-> l.lang]

\* src/unnamed/part_000: the neutral document of a short text
NeutralData(l) ==
  [responseId |-> l.responseId,
   questionId |-> l.questionId,
   joy |-> Num(0), sadness |-> Num(0), anger |-> Num(0), fear |-> Num(0),
   disgust |-> Num(0),
   sentiment |-> Num(0),
   sentiment_label |-> Str("neutral"),
   model |-> ModelTag,
   processedAt |-> l.nowIso,
   createdAt |-> l.nowIso,
   textLen |-> Num(StrLen(l.cleanText)),
   note |-> Str("too_short")]

\* db.createDocument(DB_ID, ANALYSIS, ID.unique(), data)
CreateDocumentCall(l, data) ==
  [op |-> "createDocument", databaseId |-> l.DB_ID, collectionId |-> l.ANALYSIS,
   documentId |-> "unique()", data |-> data]

\* nlu.analyze(params)
AnalyzeCallIndex(l) ==
  [text |-> l.cleanText, features |-> {"emotion", "sentiment"}]

AnalyzeCallPart(l) ==
  [text |-> l.cleanText, language |-> l.lang,
   features |-> {"emotion", "sentiment"}]

(* ----------------------------- responses ------------------------------ *)

InvalidPayloadResponse ==
  [status |-> 400,
   body |-> [success |-> FALSE,
             error |-> <<"Missing or invalid payload. Expect { responseId, questionId?, text }">>]]

\* the catch answers without a status code, which res.json takes as 200
CatchResponse_DefaultStatus(err) ==
  [status |-> 200,
   body |-> [success |-> FALSE,
             error |-> IF err.message # <<>> THEN err.message
                       ELSE <<"Internal error">>]]

\* catch (err): res.json({ success: false, error: err?.message || "Internal error" }, 500)
CatchResponse(err) ==
  [status |-> 500,
   body |-> [success |-> FALSE,
             error |-> IF err.message # <<>> THEN err.message
                       ELSE <<"Internal error">>]]

\* the answer carries the id of the document written before this one
SuccessResponseIndex_PreviousId(id, data) ==
  [status |-> 200,
   body |-> [success |-> TRUE, analysisId |-> id - 1, emotions |-> data]]

SuccessResponseIndex(id, data) ==
  [status |-> 200,
   body |-> [success |-> TRUE, analysisId |-> id, emotions |-> data]]

\* the answer reads saved.id, which the stored document does not have
SuccessResponsePart_NoId(id, emotions, sd) ==
  [status |-> 200,
   body |-> [success |-> TRUE, analysisId |-> 0, emotions |-> emotions,
             sentiment |-> sd]]

SuccessResponsePart(id, emotions, sd) ==
  [status |-> 200,
   body |-> [success |-> TRUE, analysisId |-> id, emotions |-> emotions,
             sentiment |-> sd]]

SkippedResponse(id) ==
  [status |-> 200,
   body |-> [success |-> TRUE, analysisId |-> id, skipped |-> Str("too_short")]]

(* ------------------------- the handler's steps ------------------------ *)

\* the handler's local variables
Locals0 ==
  [responseId |-> Undefined, questionId |-> Null, cleanText |-> <<>>,
   nowIso |-> Undefined, DB_ID |-> EnvUnset, ANALYSIS |-> EnvUnset,
   lang |-> EnvUnset, minLen |-> Num(0), path |-> "none",
   i |-> 0, lastErr |-> NoError, sleepMs |-> 0,
   emotions |-> NoEmotions, sentimentDoc |-> NoSentiment,
   data |-> [model |-> Undefined]]

\* what a step of the handler does: where it stops, its locals, the two
\* hoisted clients, the calls it issues and the response it sends
Outcome(pc_, l, w, d, nlu, dbc, resp) ==
  [pc |-> pc_, loc |-> l, watson |-> w, db |-> d,
   nlu |-> nlu, dbc |-> dbc, resp |-> resp]

\* the exception escapes the handler: no response is sent
Thrown_Escapes(err, l, w, d) == Outcome("done", l, w, d, <<>>, <<>>, <<>>)

\* an exception reaches the handler's catch
Thrown(err, l, w, d) == Outcome("done", l, w, d, <<>>, <<>>, <<CatchResponse(err)>>)

\* withRetry where a turn of the loop starts fn twice without awaiting
RetryTurn_Hedged(call, attempts, l, w, d) ==
  IF l.i < attempts
  THEN Outcome("nlu", l, w, d, <<call, call>>, <<>>, <<>>)
  ELSE Thrown(l.lastErr, l, w, d)

\* withRetry: one more turn of the loop, for (...; i < attempts; ...) fn()
RetryTurn(call, attempts, l, w, d) ==
  IF l.i < attempts
  THEN Outcome("nlu", l, w, d, <<call>>, <<>>, <<>>)
  ELSE Thrown(l.lastErr, l, w, d)

\* src/index.js lines 112-124: getWatson(), withRetry(() => nlu.analyze(...))
AnalyzeIndex(e, w, d, l) ==
  LET gw == getWatson(e, w) IN
  IF gw.threw THEN Thrown(gw.err, l, gw.client, d)
  ELSE RetryTurn(AnalyzeCallIndex(l), RetryAttempts,
                 [l EXCEPT !.path = "full", !.i = 0], gw.client, d)

\* src/unnamed/part_000 lines 74-100: getDB(), the short-text branch,
\* getWatson(), withRetry(() => nlu.analyze(...))
AnalyzePart(e, w, d, l) ==
  LET gd == getDB(e, d) IN
  IF gd.threw THEN Thrown(gd.err, l, w, gd.client)
  ELSE IF l.minLen.t = "number" /\ StrLen(l.cleanText) < l.minLen.n
  THEN LET data == NeutralData(l) IN
       Outcome("db", [l EXCEPT !.path = "short", !.data = data], w, gd.client,
               <<>>, <<CreateDocumentCall(l, data)>>, <<>>)
  ELSE LET gw == getWatson(e, w) IN
       IF gw.threw THEN Thrown(gw.err, l, gw.client, gd.client)
       ELSE RetryTurn(AnalyzeCallPart(l), RetryAttempts,
                      [l EXCEPT !.path = "full", !.i = 0], gw.client, gd.client)

\* Number(process.env.WATSON_MINLEN || 8)
MinLen(e) ==
  IF EnvFalsy(e["WATSON_MINLEN"]) THEN Num(DefaultMinLen)
  ELSE StringToNumber(e["WATSON_MINLEN"].runs)

\* process.env.WATSON_LANGUAGE || "en"
Language(e) ==
  IF EnvFalsy(e["WATSON_LANGUAGE"]) THEN EnvStr(DefaultLanguage)
  ELSE e["WATSON_LANGUAGE"]

\* the handler from its entry to its first await (or response)
HandlerEntry(v, e, w, d, body, now) ==
  IF requireEnvThrows(e, "APPWRITE_DATABASE_ID")
  THEN Thrown(requireEnvError("APPWRITE_DATABASE_ID"), Locals0, w, d)
  ELSE IF requireEnvThrows(e, "APPWRITE_ANALYSIS_COLLECTION_ID")
  THEN Thrown(requireEnvError("APPWRITE_ANALYSIS_COLLECTION_ID"), Locals0, w, d)
  ELSE
    LET l0 == [Locals0 EXCEPT !.DB_ID = e["APPWRITE_DATABASE_ID"],
                              !.ANALYSIS = e["APPWRITE_ANALYSIS_COLLECTION_ID"],
                              !.lang = IF v = "part" THEN Language(e) ELSE @,
                              !.minLen = IF v = "part" THEN MinLen(e) ELSE @]
        value == parseJson(body)
    IN
    IF DestructureThrows(value) THEN Thrown(DestructureError, l0, w, d)
    ELSE
      LET p == Destructure(value) IN
      IF InvalidPayload(p)
      THEN Outcome("done", l0, w, d, <<>>, <<>>, <<InvalidPayloadResponse>>)
      ELSE
        LET l1 == [l0 EXCEPT !.responseId = p.responseId,
                             !.questionId = p.questionId,
                             !.cleanText = truncate(Trim(p.text.runs), MaxTextLen),
                             !.nowIso = IF v = "part" THEN Iso(now) ELSE @]
        IN IF v = "index" THEN AnalyzeIndex(e, w, d, l1)
           ELSE AnalyzePart(e, w, d, l1)

\* nlu.analyze resolved with r: normalisation and createDocument
AfterAnalyze(v, e, w, d, l, r, now) ==
  LET emotions == ExtractEmotions(r)
      sd == ExtractSentiment(r)
      l1 == [l EXCEPT !.emotions = emotions, !.sentimentDoc = sd]
  IN
  IF v = "index"
  THEN LET data == AnalysisDataIndex(l, emotions, sd, now)
           gd == getDB(e, d)
       IN IF gd.threw THEN Thrown(gd.err, [l1 EXCEPT !.data = data], w, gd.client)
          ELSE Outcome("db", [l1 EXCEPT !.data = data], w, gd.client,
                       <<>>, <<CreateDocumentCall(l, data)>>, <<>>)
  ELSE LET data == AnalysisDataPart(l, emotions, sd) IN
       Outcome("db", [l1 EXCEPT !.data = data], w, d,
               <<>>, <<CreateDocumentCall(l, data)>>, <<>>)

\* nlu.analyze rejected with err, the first error being the one kept:
\* catch (e) { lastErr ??= e; ... }
AnalyzeRejected_FirstError(attempts, delayMs, l, w, d, err) ==
  LET l1 == [l EXCEPT !.lastErr = IF l.lastErr = NoError THEN err ELSE @] IN
  IF l.i < attempts - 1
  THEN Outcome("delay", [l1 EXCEPT !.sleepMs = delayMs], w, d, <<>>, <<>>, <<>>)
  ELSE Thrown(l1.lastErr, [l1 EXCEPT !.i = l.i + 1], w, d)

\* nlu.analyze rejected with err:
\* catch (e) { lastErr = e; if (i < attempts - 1) await new Promise(setTimeout) }
AnalyzeRejected(attempts, delayMs, l, w, d, err) ==
  LET l1 == [l EXCEPT !.lastErr = err] IN
  IF l.i < attempts - 1
  THEN Outcome("delay", [l1 EXCEPT !.sleepMs = delayMs], w, d, <<>>, <<>>, <<>>)
  ELSE Thrown(l1.lastErr, [l1 EXCEPT !.i = l.i + 1], w, d)

\* the delay is over: i++ and the next turn of the loop
AfterDelay(v, l, w, d) ==
  RetryTurn(IF v = "index" THEN AnalyzeCallIndex(l) ELSE AnalyzeCallPart(l),
            RetryAttempts, [l EXCEPT !.i = l.i + 1, !.sleepMs = 0], w, d)

\* createDocument resolved with a document whose $id is id
AfterCreate(v, l, w, d, id) ==
  Outcome("done", l, w, d, <<>>, <<>>,
          << IF v = "index" THEN SuccessResponseIndex(id, l.data)
             ELSE IF l.path = "short" THEN SkippedResponse(id)
             ELSE SuccessResponsePart(id, l.emotions, l.sentimentDoc) >>)

(* ------------------------------- inputs ------------------------------- *)

\* at most this many required environment variables are unset or blank
MaxMissingEnv == 1

EnvValue(name) ==
  CASE name = "WATSON_API_KEY"                  -> << <<"k", 1>>, <<"1", 1>> >>
    [] name = "WATSON_URL"                      -> << <<"u", 1>>, <<"2", 1>> >>
    [] name = "APPWRITE_ENDPOINT"               -> << <<"e", 1>>, <<"3", 1>> >>
    [] name = "APPWRITE_PROJECT_ID"             -> << <<"p", 1>>, <<"4", 1>> >>
    [] name = "APPWRITE_API_KEY"                -> << <<"a", 1>>, <<"5", 1>> >>
    [] name = "APPWRITE_DATABASE_ID"            -> << <<"d", 1>>, <<"6", 1>> >>
    [] name = "APPWRITE_ANALYSIS_COLLECTION_ID" -> << <<"c", 1>>, <<"7", 1>> >>

Blank == << <<" ", 2>> >>

MinLenValues ==
  {EnvUnset, EnvStr(<< <<"3", 1>> >>), EnvStr(<< <<"a", 1>>, <<"b", 1>> >>)}

LanguageValues == {EnvUnset}

\* process.env with the names in unset undefined and those in blank "  "
Environment(unset, blank, minLen, language) ==
  [n \in EnvNames |->
     IF n \in unset THEN EnvUnset
     ELSE IF n \in blank THEN EnvStr(Blank)
     ELSE IF n = "WATSON_MINLEN" THEN minLen
     ELSE IF n = "WATSON_LANGUAGE" THEN language
     ELSE EnvStr(EnvValue(n))]

Environments ==
  {Environment(c[1], c[2], c[3], c[4]) :
     c \in {d \in (SUBSET RequiredEnv) \X (SUBSET RequiredEnv)
                  \X MinLenValues \X LanguageValues :
              /\ d[1] \cap d[2] = {}
              /\ Cardinality(d[1] \cup d[2]) <= MaxMissingEnv}}

Text(r) == [t |-> "string", runs |-> r]

\* "ok"
TextOk == Text(<< <<"o", 1>>, <<"k", 1>> >>)

\* " hello\n"
TextHello ==
  Text(<< <<" ", 1>>, <<"h", 1>>, <<"e", 1>>, <<"l", 2>>, <<"o", 1>>, <<"\n", 1>> >>)

\* "aaaaaaa"
TextSeven == Text(<< <<"a", 7>> >>)

\* "hi there"
TextEight ==
  Text(<< <<"h", 1>>, <<"i", 1>>, <<" ", 1>>, <<"t", 1>>, <<"h", 1>>, <<"e", 1>>,
          <<"r", 1>>, <<"e", 1>> >>)

\* 10000 characters
TextMax == Text(<< <<"a", 4>>, <<"b", MaxTextLen - 4>> >>)

\* 10005 characters between blanks, the cut falls inside a run
TextOver ==
  Text(<< <<" ", 2>>, <<"a", 4>>, <<" ", 1>>, <<"b", MaxTextLen - 3>>, <<"c", 3>>,
          <<"\n", 1>> >>)

\* 10001 characters, the cut falls between two runs
TextOverByOne == Text(<< <<"a", MaxTextLen>>, <<"z", 1>> >>)

TextBlank == Text(<< <<" ", 3>> >>)

TextEmpty == Text(<<>>)

TextNumber == [t |-> "number", runs |-> <<>>]

Json(rid, qid, text) ==
  [raw |-> "json",
   value |-> [t |-> "object", responseId |-> rid, questionId |-> qid, text |-> text]]

Bodies ==
  {[raw |-> "undefined", value |-> EmptyObject],
   [raw |-> "empty", value |-> EmptyObject],
   [raw |-> "malformed", value |-> EmptyObject],
   [raw |-> "json", value |-> [EmptyObject EXCEPT !.t = "null"]],
   [raw |-> "json", value |-> [EmptyObject EXCEPT !.t = "number"]],
   Json(Undefined, Str("q1"), TextEight),
   Json(Str(""), Undefined, TextEight),
   Json(Str("r1"), Undefined, EmptyText),
   Json(Str("r1"), Undefined, TextNumber),
   Json(Str("r1"), Undefined, TextBlank),
   Json(Str("r1"), Undefined, TextEmpty),
   Json(Str("r1"), Undefined, TextOk),
   Json(Str("r1"), Null, TextHello),
   Json(Str("r1"), Str("q1"), TextSeven),
   Json(Num(7), Str("q1"), TextEight),
   Json(Str("r1"), Undefined, TextMax),
   Json(Str("r1"), Str("q1"), TextOver),
   Json(Str("r1"), Null, TextOverByOne)}

Emotion(joy, sadness, anger, fear, disgust) ==
  [present |-> TRUE,
   scores |-> [k \in EmotionNames |->
                 CASE k = "joy" -> joy [] k = "sadness" -> sadness
                   [] k = "anger" -> anger [] k = "fear" -> fear
                   [] k = "disgust" -> disgust]]

NoEmotion == [present |-> FALSE, scores |-> NoEmotions]

Sentiment(score, label) == [present |-> TRUE, score |-> score, label |-> label]

\* what nlu.analyze resolves with; scores are in hundredths
NluResults ==
  {[hasResult |-> TRUE,
    emotion |-> Emotion(Num(80), Num(10), Num(0), Num(5), Num(1)),
    sentiment |-> Sentiment(Num(50), Str("positive"))],
   [hasResult |-> TRUE,
    emotion |-> NoEmotion,
    sentiment |-> Sentiment(Num(-40), Str("negative"))],
   [hasResult |-> TRUE,
    emotion |-> Emotion(Num(20), Num(30), Num(40), Num(50), Num(60)),
    sentiment |-> NoSentiment],
   [hasResult |-> TRUE,
    emotion |-> Emotion(Num(70), Undefined, Null, Undefined, Num(2)),
    sentiment |-> Sentiment(Undefined, Str("positive"))],
   [hasResult |-> TRUE,
    emotion |-> Emotion(Undefined, Num(90), Undefined, Num(3), Undefined),
    sentiment |-> Sentiment(Num(-10), Undefined)],
   [hasResult |-> TRUE,
    emotion |-> Emotion(Num(1), Num(2), Num(3), Num(4), Str("high")),
    sentiment |-> Sentiment(Str("0.5"), Str(""))],
   [hasResult |-> FALSE, emotion |-> NoEmotion, sentiment |-> NoSentiment]}

\* what nlu.analyze rejects with
NluErrors ==
  {Error("Error", <<"ETIMEDOUT">>), Error("Error", <<"Forbidden">>),
   Error("Error", <<>>)}

\* what createDocument rejects with
DbErrors == {Error("AppwriteException", <<"Server Error">>)}

(* -------------------------------- state ------------------------------- *)

VARIABLES
  variant,      \* "index": src/index.js is deployed, "part": src/unnamed/part_000
  env,          \* process.env
  watsonNLU,    \* hoisted NLU client
  appwriteDB,   \* hoisted database client
  clock,        \* the instant new Date() reads
  started,      \* invocations so far
  lastId,       \* the database's last generated document id
  pc,           \* per slot: "idle", "nlu", "delay", "db", "done"
  req,          \* per slot: the request body
  loc,          \* per slot: the handler's locals
  nluCalls,     \* per slot: the nlu.analyze calls issued
  nluReplies,   \* per slot: how each call ended
  dbCalls,      \* per slot: the createDocument calls issued
  dbReplies,    \* per slot: how each call ended
  responses     \* per slot: the res.json calls

vars == <<variant, env, watsonNLU, appwriteDB, clock, started, lastId, pc, req,
          loc, nluCalls, nluReplies, dbCalls, dbReplies, responses>>

NoBody == [raw |-> "undefined", value |-> EmptyObject]

\* the invocations in progress; Spec serves one request at a time
Slots == DOMAIN pc

OneSlot == {1}

Init ==
  /\ variant \in {"index", "part"}
  /\ env \in Environments
  /\ watsonNLU = NoClient
  /\ appwriteDB = NoClient
  /\ clock = 0
  /\ started = 0
  /\ lastId = 0
  /\ pc = [i \in OneSlot |-> "idle"]
  /\ req = [i \in OneSlot |-> NoBody]
  /\ loc = [i \in OneSlot |-> Locals0]
  /\ nluCalls = [i \in OneSlot |-> <<>>]
  /\ nluReplies = [i \in OneSlot |-> <<>>]
  /\ dbCalls = [i \in OneSlot |-> <<>>]
  /\ dbReplies = [i \in OneSlot |-> <<>>]
  /\ responses = [i \in OneSlot |-> <<>>]

\* a step of the handler of slot i ends with outcome o
Apply(i, o) ==
  /\ pc' = [pc EXCEPT ![i] = o.pc]
  /\ loc' = [loc EXCEPT ![i] = o.loc]
  /\ watsonNLU' = o.watson
  /\ appwriteDB' = o.db
  /\ nluCalls' = [nluCalls EXCEPT ![i] = @ \o o.nlu]
  /\ dbCalls' = [dbCalls EXCEPT ![i] = @ \o o.dbc]
  /\ responses' = [responses EXCEPT ![i] = @ \o o.resp]
  /\ clock' = clock + 1

\* the platform invokes the handler with a request
Invoke(i, body) ==
  /\ pc[i] = "idle"
  /\ started < MaxInvocations
  /\ started' = started + 1
  /\ req' = [req EXCEPT ![i] = body]
  /\ Apply(i, HandlerEntry(variant, env, watsonNLU, appwriteDB, body, clock))
  /\ UNCHANGED <<variant, env, lastId, nluReplies, dbReplies>>

\* nlu.analyze resolves
NluResolves(i, r) ==
  /\ pc[i] = "nlu"
  /\ nluReplies' = [nluReplies EXCEPT ![i] = Append(@, [ok |-> TRUE, result |-> r])]
  /\ Apply(i, AfterAnalyze(variant, env, watsonNLU, appwriteDB, loc[i], r, clock))
  /\ UNCHANGED <<variant, env, started, lastId, req, dbReplies>>

\* nlu.analyze rejects
NluRejects(i, err) ==
  /\ pc[i] = "nlu"
  /\ nluReplies' = [nluReplies EXCEPT ![i] = Append(@, [ok |-> FALSE, err |-> err])]
  /\ Apply(i, AnalyzeRejected(RetryAttempts, RetryDelayMs, loc[i], watsonNLU, appwriteDB, err))
  /\ UNCHANGED <<variant, env, started, lastId, req, dbReplies>>

\* setTimeout(r, delayMs) fires
DelayElapses(i) ==
  /\ pc[i] = "delay"
  /\ Apply(i, AfterDelay(variant, loc[i], watsonNLU, appwriteDB))
  /\ UNCHANGED <<variant, env, started, lastId, req, nluReplies, dbReplies>>

\* createDocument resolves: the database stores the document under a new id
DbResolves(i) ==
  /\ pc[i] = "db"
  /\ lastId' = lastId + 1
  /\ dbReplies' = [dbReplies EXCEPT ![i] =
                     Append(@, [ok |-> TRUE, id |-> lastId + 1,
                                data |-> dbCalls[i][Len(dbCalls[i])].data])]
  /\ Apply(i, AfterCreate(variant, loc[i], watsonNLU, appwriteDB, lastId + 1))
  /\ UNCHANGED <<variant, env, started, req, nluReplies>>

\* createDocument rejects and is wrapped in withRetry: the write is repeated
DbRejects_Retries(i, err) ==
  /\ pc[i] = "db"
  /\ dbReplies' = [dbReplies EXCEPT ![i] = Append(@, [ok |-> FALSE, err |-> err])]
  /\ Apply(i, IF Len(dbCalls[i]) < RetryAttempts
               THEN Outcome("db", loc[i], watsonNLU, appwriteDB,
                            <<>>, <<dbCalls[i][1]>>, <<>>)
               ELSE Thrown(err, loc[i], watsonNLU, appwriteDB))
  /\ UNCHANGED <<variant, env, started, lastId, req, nluReplies>>

\* createDocument rejects
DbRejects(i, err) ==
  /\ pc[i] = "db"
  /\ dbReplies' = [dbReplies EXCEPT ![i] = Append(@, [ok |-> FALSE, err |-> err])]
  /\ Apply(i, Thrown(err, loc[i], watsonNLU, appwriteDB))
  /\ UNCHANGED <<variant, env, started, lastId, req, nluReplies>>

\* the platform has delivered the response; the slot serves the next request
Complete(i) ==
  /\ pc[i] = "done"
  /\ pc' = [pc EXCEPT ![i] = "idle"]
  /\ req' = [req EXCEPT ![i] = NoBody]
  /\ loc' = [loc EXCEPT ![i] = Locals0]
  /\ nluCalls' = [nluCalls EXCEPT ![i] = <<>>]
  /\ nluReplies' = [nluReplies EXCEPT ![i] = <<>>]
  /\ dbCalls' = [dbCalls EXCEPT ![i] = <<>>]
  /\ dbReplies' = [dbReplies EXCEPT ![i] = <<>>]
  /\ responses' = [responses EXCEPT ![i] = <<>>]
  /\ UNCHANGED <<variant, env, watsonNLU, appwriteDB, clock, started, lastId>>

Next ==
  \/ \E i \in Slots, body \in Bodies : Invoke(i, body)
  \/ \E i \in Slots, r \in NluResults : NluResolves(i, r)
  \/ \E i \in Slots, err \in NluErrors : NluRejects(i, err)
  \/ \E i \in Slots : DelayElapses(i)
  \/ \E i \in Slots : DbResolves(i)
  \/ \E i \in Slots, err \in DbErrors : DbRejects(i, err)
  \/ \E i \in Slots : Complete(i)

Spec == Init /\ [][Next]_vars

(* ----------------------- concurrent invocations ----------------------- *)

\* two invocations of one process in progress at the same time
ConcurrentSlots == {1, 2}

\* all variables set, and one variable of each group unset
ConcurrentEnvironments ==
  {Environment(unset, {}, EnvUnset, EnvUnset) :
     unset \in {{}, {"WATSON_URL"}, {"APPWRITE_API_KEY"}, {"APPWRITE_DATABASE_ID"}}}

\* a payload that is refused, one below and one at the default minimum length
ConcurrentBodies ==
  {Json(Str("r1"), Undefined, TextBlank),
   Json(Str("r1"), Str("q1"), TextSeven),
   Json(Num(7), Str("q1"), TextEight)}

ConcurrentNluResults ==
  {[hasResult |-> TRUE,
    emotion |-> Emotion(Num(80), Num(10), Num(0), Num(5), Num(1)),
    sentiment |-> Sentiment(Num(50), Str("positive"))],
   [hasResult |-> FALSE, emotion |-> NoEmotion, sentiment |-> NoSentiment]}

ConcurrentNluErrors == {Error("Error", <<"ETIMEDOUT">>), Error("Error", <<"Forbidden">>)}

InitConcurrent ==
  /\ variant \in {"index", "part"}
  /\ env \in ConcurrentEnvironments
  /\ watsonNLU = NoClient
  /\ appwriteDB = NoClient
  /\ clock = 0
  /\ started = 0
  /\ lastId = 0
  /\ pc = [i \in ConcurrentSlots |-> "idle"]
  /\ req = [i \in ConcurrentSlots |-> NoBody]
  /\ loc = [i \in ConcurrentSlots |-> Locals0]
  /\ nluCalls = [i \in ConcurrentSlots |-> <<>>]
  /\ nluReplies = [i \in ConcurrentSlots |-> <<>>]
  /\ dbCalls = [i \in ConcurrentSlots |-> <<>>]
  /\ dbReplies = [i \in ConcurrentSlots |-> <<>>]
  /\ responses = [i \in ConcurrentSlots |-> <<>>]

\* the handlers interleave at their awaits: each step runs to the next await
NextConcurrent ==
  \/ \E i \in Slots, body \in ConcurrentBodies : Invoke(i, body)
  \/ \E i \in Slots, r \in ConcurrentNluResults : NluResolves(i, r)
  \/ \E i \in Slots, err \in ConcurrentNluErrors : NluRejects(i, err)
  \/ \E i \in Slots : DelayElapses(i)
  \/ \E i \in Slots : DbResolves(i)
  \/ \E i \in Slots, err \in DbErrors : DbRejects(i, err)
  \/ \E i \in Slots : Complete(i)

SpecConcurrent == InitConcurrent /\ [][NextConcurrent]_vars

(* --------------------------- observations ----------------------------- *)

Done(i) == pc[i] = "done"

\* the response of a finished invocation
Response(i) == responses[i][1]

\* the replies of the database that stored a document
Stored(i) == SelectSeq(dbReplies[i], LAMBDA x : x.ok)

\* the payload is an object with a responseId and a text that is a string
\* with a character other than whitespace
ValidPayload(b) ==
  /\ b.raw = "json"
  /\ b.value.t = "object"
  /\ Truthy(b.value.responseId)
  /\ b.value.text.t = "string"
  /\ \E k \in 1..Len(b.value.text.runs) : b.value.text.runs[k][1] \notin Whitespace

\* the payload has no responseId, or its text is not a string or is blank
\* (an absent or unparseable body has no payload at all)
LacksFields(b) ==
  \/ b.raw # "json"
  \/ b.value.t # "object"
  \/ b.value.responseId \in {Undefined, Null}
  \/ b.value.text.t # "string"
  \/ \A k \in 1..Len(b.value.text.runs) : b.value.text.runs[k][1] \in Whitespace

\* the trimmed text of a valid payload
TrimmedText(b) == Trim(b.value.text.runs)

MissingEnv == {n \in RequiredEnv : requireEnvThrows(env, n)}

(* ------------------------------- C1 ----------------------------------- *)

\* C1 (as claimed): every invocation that does not fail payload validation
\* creates exactly one record, whatever the configuration, the NLU provider
\* and the database answer; and no call other than createDocument is issued.
C1_Original ==
  \A i \in Slots :
    /\ Done(i) /\ ValidPayload(req[i]) => Len(Stored(i)) = 1
    /\ \A k \in 1..Len(dbCalls[i]) : dbCalls[i][k].op = "createDocument"

\* C1 (amended): an invocation issues at most one database call, always a
\* createDocument, and no call at all when validation fails; a finished
\* invocation has created exactly one record when it answers 200 and none
\* when it answers 400 or 500.
C1_Records ==
  \A i \in Slots :
    /\ Len(dbCalls[i]) <= 1
    /\ Len(dbReplies[i]) <= Len(dbCalls[i])
    /\ \A k \in 1..Len(dbCalls[i]) : dbCalls[i][k].op = "createDocument"
    /\ ~ValidPayload(req[i]) => dbCalls[i] = <<>>
    /\ Done(i) => /\ Response(i).status = 200 => Len(Stored(i)) = 1
                  /\ Response(i).status # 200 => Len(Stored(i)) = 0

\* a valid payload ended with one record and a 200
C1_Witness ==
  \E i \in Slots :
    Done(i) /\ ValidPayload(req[i]) /\ Len(Stored(i)) = 1 /\ Response(i).status = 200

(* ------------------------------- C2 ----------------------------------- *)

\* the payload is valid and its trimmed text is shorter than the configured
\* minimum (WATSON_MINLEN, 8 when unset)
ShortText(b) ==
  /\ ValidPayload(b)
  /\ MinLen(env).t = "number"
  /\ StrLen(TrimmedText(b)) < MinLen(env).n

IsNeutralRecord(data) ==
  /\ \A k \in EmotionNames : data[k] = Num(0)
  /\ data.sentiment = Num(0)
  /\ data.sentiment_label = Str("neutral")
  /\ "note" \in DOMAIN data
  /\ data.note = Str("too_short")

\* C2: for a valid payload whose trimmed text is shorter than the configured
\* minimum the handler makes no NLU call, and the record it persists has all
\* five emotion scores 0, sentiment 0, label "neutral" and note "too_short".
C2_ShortText ==
  \A i \in Slots :
    ShortText(req[i]) =>
      /\ nluCalls[i] = <<>>
      /\ Done(i) => /\ Len(Stored(i)) = 1
                    /\ IsNeutralRecord(Stored(i)[1].data)

\* what src/unnamed/part_000 alone does for such a payload: no NLU call, a
\* neutral document in the one createDocument call, stored when answered 200
ShortTextInPart ==
  \A i \in Slots :
    variant = "part" /\ ShortText(req[i]) =>
      /\ nluCalls[i] = <<>>
      /\ \A k \in 1..Len(dbCalls[i]) : IsNeutralRecord(dbCalls[i][k].data)
      /\ Done(i) /\ Response(i).status = 200 =>
           Len(Stored(i)) = 1 /\ IsNeutralRecord(Stored(i)[1].data)

(* ------------------------------- C3 ----------------------------------- *)

\* every required environment variable is set
InitConfigured == Init /\ \A n \in RequiredEnv : ~requireEnvThrows(env, n)

\* the process with its configuration complete
SpecConfigured == InitConfigured /\ [][Next]_vars

\* C3: an invocation whose payload lacks responseId, or whose text is not a
\* string or is empty after trimming (an unparseable or absent body
\* included), ends with a 400 carrying success: false and makes neither an
\* NLU call nor a database write.
C3_InvalidPayload ==
  \A i \in Slots :
    LacksFields(req[i]) =>
      /\ nluCalls[i] = <<>>
      /\ dbCalls[i] = <<>>
      /\ Done(i) => /\ Response(i).status = 400
                    /\ Response(i).body.success = FALSE

\* the same without the status: no payload that lacks fields reaches a call
NoCallWithoutFields ==
  \A i \in Slots :
    LacksFields(req[i]) => nluCalls[i] = <<>> /\ dbCalls[i] = <<>>

(* ------------------------------- C4 ----------------------------------- *)

\* the invocation failed on a missing required value
FailedOnMissingEnv(i) ==
  /\ Done(i)
  /\ Response(i).status = 500
  /\ \E n \in MissingEnv :
       Response(i).body.error = <<"Missing environment variable: ", n>>

\* C4: an invocation that fails because a required configuration value is
\* absent has made no external call before the failure, neither an NLU
\* request nor a database write.
C4_NoCallBeforeFailure ==
  \A i \in Slots :
    FailedOnMissingEnv(i) => nluCalls[i] = <<>> /\ dbCalls[i] = <<>>

\* the other half of the claim, that every invocation fails with a 500 when
\* a required value is absent: not so either, the five values of the two
\* clients are only asked for when a client is built
AlwaysFailsOnMissingEnv ==
  \A i \in Slots :
    Done(i) /\ MissingEnv # {} => Response(i).status = 500

\* what the code keeps: without the database id or the collection id every
\* invocation ends in a 500 before any call
HandlerEnvIsCheckedFirst ==
  \A i \in Slots :
    MissingEnv \cap HandlerEnv # {} =>
      /\ Done(i) => Response(i).status = 500
      /\ nluCalls[i] = <<>>
      /\ dbCalls[i] = <<>>

\* what src/unnamed/part_000 alone does: no call before such a failure
NoCallBeforeFailureInPart ==
  \A i \in Slots :
    variant = "part" /\ FailedOnMissingEnv(i) =>
      nluCalls[i] = <<>> /\ dbCalls[i] = <<>>

(* ------------------------------- C5 ----------------------------------- *)

\* the first NLU attempt failed and a second one was answered
FirstAttemptFailed(i) ==
  /\ ValidPayload(req[i])
  /\ Len(nluReplies[i]) = 2
  /\ ~nluReplies[i][1].ok

\* the document the handler writes for the NLU result r
ExpectedData(i, r, data) ==
  IF variant = "index"
  THEN AnalysisDataIndex(loc[i], ExtractEmotions(r), ExtractSentiment(r),
                         data.processedAt.n)
  ELSE AnalysisDataPart(loc[i], ExtractEmotions(r), ExtractSentiment(r))

\* C5 (as claimed): when the first NLU attempt fails and the second succeeds
\* the invocation saves a record and responds 200; when both fail no record
\* is written and the response is 500 with success: false.
C5_Original ==
  \A i \in Slots :
    Done(i) /\ FirstAttemptFailed(i) =>
      IF nluReplies[i][2].ok
      THEN Len(Stored(i)) = 1 /\ Response(i).status = 200
      ELSE /\ Stored(i) = <<>>
           /\ Response(i).status = 500
           /\ Response(i).body.success = FALSE

\* C5 (amended): one failed NLU attempt never ends the invocation; the second
\* attempt repeats the request of the first, and when it succeeds the
\* invocation goes on as after a first-attempt success: the document it
\* writes is the one for that result, and it responds 200 with the record
\* saved when the database client can be built and the write succeeds, 500
\* with no record otherwise.  When both attempts fail there is no third
\* attempt, no database write, and the response is 500 with success: false.
C5_Retry ==
  \A i \in Slots :
    /\ Len(nluCalls[i]) <= 2
    /\ Len(nluCalls[i]) = 2 => nluCalls[i][1] = nluCalls[i][2]
    /\ Done(i) /\ Len(nluReplies[i]) = 1 => nluReplies[i][1].ok
    /\ FirstAttemptFailed(i) /\ nluReplies[i][2].ok =>
         /\ pc[i] \in {"db", "done"}
         /\ \A k \in 1..Len(dbCalls[i]) :
              dbCalls[i][k].data =
                ExpectedData(i, nluReplies[i][2].result, dbCalls[i][k].data)
         /\ Done(i) =>
              IF dbReplies[i] # <<>> /\ dbReplies[i][1].ok
              THEN Len(Stored(i)) = 1 /\ Response(i).status = 200
              ELSE /\ Stored(i) = <<>>
                   /\ Response(i).status = 500
                   /\ Response(i).body.success = FALSE
    /\ FirstAttemptFailed(i) /\ ~nluReplies[i][2].ok =>
         /\ Done(i)
         /\ dbCalls[i] = <<>>
         /\ Response(i).status = 500
         /\ Response(i).body.success = FALSE

\* the first attempt failed, the second succeeded, the record is saved
C5_Witness ==
  \E i \in Slots :
    /\ Done(i) /\ FirstAttemptFailed(i) /\ nluReplies[i][2].ok
    /\ Len(Stored(i)) = 1
    /\ Response(i).status = 200

(* ------------------------------- C6 ----------------------------------- *)

\* the NLU call of the invocation succeeded, with this result
NluSucceeded(i) ==
  nluReplies[i] # <<>> /\ nluReplies[i][Len(nluReplies[i])].ok

NluResult(i) == nluReplies[i][Len(nluReplies[i])].result

EmotionMissing(r, k) ==
  \/ ~r.hasResult
  \/ ~r.emotion.present
  \/ r.emotion.scores[k] \in {Undefined, Null}

SentimentScoreMissing(r) ==
  \/ ~r.hasResult
  \/ ~r.sentiment.present
  \/ r.sentiment.score \in {Undefined, Null}

SentimentLabelMissing(r) ==
  \/ ~r.hasResult
  \/ ~r.sentiment.present
  \/ r.sentiment.label \in {Undefined, Null}

\* the result lacks the emotion or sentiment sub-structure or some score
Incomplete(r) ==
  \/ \E k \in EmotionNames : EmotionMissing(r, k)
  \/ SentimentScoreMissing(r)
  \/ SentimentLabelMissing(r)

\* what is missing in r is 0 or "neutral" in data, what is there is kept
Defaulted(r, data) ==
  /\ \A k \in EmotionNames :
       IF EmotionMissing(r, k) THEN data[k] = Num(0)
       ELSE r.emotion.scores[k].t = "number" => data[k] = r.emotion.scores[k]
  /\ IF SentimentScoreMissing(r) THEN data.sentiment = Num(0)
     ELSE r.sentiment.score.t = "number" => data.sentiment = r.sentiment.score
  /\ IF SentimentLabelMissing(r) THEN data.sentiment_label = Str("neutral")
     ELSE Truthy(r.sentiment.label) => data.sentiment_label = r.sentiment.label

\* C6 (as claimed): a successful NLU response that lacks the emotion or the
\* sentiment sub-structure or a score never fails the request: one record is
\* written with the missing values defaulted, and the response is 200.
C6_Original ==
  \A i \in Slots :
    Done(i) /\ NluSucceeded(i) /\ Incomplete(NluResult(i)) =>
      /\ Len(Stored(i)) = 1
      /\ Defaulted(NluResult(i), Stored(i)[1].data)
      /\ Response(i).status = 200

\* C6 (amended): such a response is never what fails the request: the handler
\* goes on to the database write with every missing emotion score as 0, a
\* missing sentiment score as 0 and a missing label as "neutral", and responds
\* 200 with that one record when the write succeeds; it responds 500 only
\* when createDocument rejects or (src/index.js) the database client cannot
\* be built for lack of configuration.
C6_Defaults ==
  \A i \in Slots :
    NluSucceeded(i) /\ Incomplete(NluResult(i)) =>
      /\ pc[i] \in {"db", "done"}
      /\ \A k \in 1..Len(dbCalls[i]) : Defaulted(NluResult(i), dbCalls[i][k].data)
      /\ dbCalls[i] = <<>> => variant = "index" /\ MissingEnv \cap ClientEnv # {}
      /\ Done(i) =>
           IF dbReplies[i] # <<>> /\ dbReplies[i][1].ok
           THEN /\ Len(Stored(i)) = 1
                /\ Defaulted(NluResult(i), Stored(i)[1].data)
                /\ Response(i).status = 200
           ELSE Stored(i) = <<>> /\ Response(i).status = 500

\* a result without the emotion sub-structure was saved and answered 200
C6_Witness ==
  \E i \in Slots :
    /\ Done(i) /\ NluSucceeded(i)
    /\ ~NluResult(i).emotion.present
    /\ Len(Stored(i)) = 1
    /\ Stored(i)[1].data.joy = Num(0)
    /\ Response(i).status = 200

(* ------------------------------- C7 ----------------------------------- *)

\* p is a prefix of r (both in normal form)
IsPrefix(p, r) ==
  \/ p = <<>>
  \/ /\ Len(p) <= Len(r)
     /\ \A k \in 1..(Len(p) - 1) : p[k] = r[k]
     /\ p[Len(p)][1] = r[Len(p)][1]
     /\ p[Len(p)][2] <= r[Len(p)][2]

Min(a, b) == IF a < b THEN a ELSE b

\* t is the trimmed text of the payload cut to at most 10,000 characters
IsCutOf(t, b) ==
  /\ IsPrefix(t, TrimmedText(b))
  /\ StrLen(t) = Min(StrLen(TrimmedText(b)), 10000)

\* C7: the text passed to the NLU provider is the trimmed input cut to at
\* most 10,000 characters, a prefix of the trimmed text, and the persisted
\* record's textLen is the length of that truncated text.
C7_Truncation ==
  \A i \in Slots :
    /\ \A k \in 1..Len(nluCalls[i]) : IsCutOf(nluCalls[i][k].text, req[i])
    /\ \A k \in 1..Len(dbCalls[i]) :
         /\ "textLen" \in DOMAIN dbCalls[i][k].data
         /\ dbCalls[i][k].data.textLen =
              Num(Min(StrLen(TrimmedText(req[i])), 10000))

\* what both files do: the text sent to the provider is the cut trimmed text
NluTextIsCut ==
  \A i \in Slots :
    \A k \in 1..Len(nluCalls[i]) : IsCutOf(nluCalls[i][k].text, req[i])

\* what src/unnamed/part_000 alone does: textLen is the truncated length
TextLenInPart ==
  \A i \in Slots :
    variant = "part" =>
      \A k \in 1..Len(dbCalls[i]) :
        /\ "textLen" \in DOMAIN dbCalls[i][k].data
        /\ dbCalls[i][k].data.textLen =
             Num(Min(StrLen(TrimmedText(req[i])), 10000))

(* ------------------------------- C8 ----------------------------------- *)

Populated(data, f) ==
  /\ f \in DOMAIN data
  /\ data[f].t = "string"
  /\ data[f].s # ""

\* C8: every record created for a valid payload whose trimmed text is at or
\* above the minimum has model "watson-nlu-v1" and has processedAt and
\* createdAt populated.
C8_ModelAndTimestamps ==
  \A i \in Slots :
    ValidPayload(req[i]) /\ ~ShortText(req[i]) =>
      \A k \in 1..Len(Stored(i)) :
        /\ Stored(i)[k].data.model = Str("watson-nlu-v1")
        /\ Populated(Stored(i)[k].data, "processedAt")
        /\ Populated(Stored(i)[k].data, "createdAt")

\* what both files do: the model tag and processedAt
ModelAndProcessedAt ==
  \A i \in Slots :
    \A k \in 1..Len(Stored(i)) :
      /\ Stored(i)[k].data.model = Str("watson-nlu-v1")
      /\ Populated(Stored(i)[k].data, "processedAt")

\* what src/unnamed/part_000 alone does: createdAt as well
CreatedAtInPart ==
  \A i \in Slots :
    variant = "part" =>
      \A k \in 1..Len(Stored(i)) : Populated(Stored(i)[k].data, "createdAt")

(* ------------------------------- C9 ----------------------------------- *)

\* the invocation took the short-circuit path: a record without an NLU call
ShortCircuited(i) == nluCalls[i] = <<>>

\* C9 (as claimed): every invocation that created a record responds 200 with
\* success: true, the analysisId of the created record and an emotions
\* field, on the short-circuit path as on the full-analysis path.
C9_Original ==
  \A i \in Slots :
    Done(i) /\ Len(Stored(i)) = 1 =>
      /\ Response(i).status = 200
      /\ Response(i).body.success = TRUE
      /\ Response(i).body.analysisId = Stored(i)[1].id
      /\ "emotions" \in DOMAIN Response(i).body

\* C9 (amended): every invocation that created a record responds 200 with
\* success: true and the analysisId of the created record; on the
\* full-analysis path the body has an emotions field (the stored record in
\* src/index.js, the provider's emotion scores in src/unnamed/part_000), on
\* the short-circuit path it has skipped: "too_short" and no emotions field.
C9_SuccessResponse ==
  \A i \in Slots :
    Done(i) /\ Len(Stored(i)) = 1 =>
      /\ Response(i).status = 200
      /\ Response(i).body.success = TRUE
      /\ Response(i).body.analysisId = Stored(i)[1].id
      /\ IF ShortCircuited(i)
         THEN /\ "emotions" \notin DOMAIN Response(i).body
              /\ "skipped" \in DOMAIN Response(i).body
              /\ Response(i).body.skipped = Str("too_short")
         ELSE /\ "emotions" \in DOMAIN Response(i).body
              /\ Response(i).body.emotions =
                   IF variant = "index" THEN Stored(i)[1].data
                   ELSE ExtractEmotions(NluResult(i))

\* a record was created on the short-circuit path and answered 200
C9_Witness ==
  \E i \in Slots :
    /\ Done(i) /\ Len(Stored(i)) = 1 /\ ShortCircuited(i)
    /\ Response(i).status = 200
    /\ "skipped" \in DOMAIN Response(i).body

\* a record was created on the full-analysis path of part_000 and answered 200
FullPathAnswered ==
  \E i \in Slots :
    /\ variant = "part" /\ Done(i) /\ Len(Stored(i)) = 1 /\ ~ShortCircuited(i)
    /\ Response(i).status = 200

(* ------------------------------- C10 ---------------------------------- *)

\* the exceptions raised in a finished invocation that the state shows:
\* a rejected createDocument, NLU attempts that all failed, a missing
\* database id or (the database id being set) collection id
RaisedErrors(i) ==
  {dbReplies[i][k].err : k \in {j \in 1..Len(dbReplies[i]) : ~dbReplies[i][j].ok}}
  \cup (IF Len(nluReplies[i]) = 2 /\ ~nluReplies[i][2].ok
        THEN {nluReplies[i][2].err} ELSE {})
  \cup (IF requireEnvThrows(env, "APPWRITE_DATABASE_ID")
        THEN {Error("Error", <<"Missing environment variable: ", "APPWRITE_DATABASE_ID">>)}
        ELSE IF requireEnvThrows(env, "APPWRITE_ANALYSIS_COLLECTION_ID")
        THEN {Error("Error", <<"Missing environment variable: ",
                               "APPWRITE_ANALYSIS_COLLECTION_ID">>)}
        ELSE {})

\* C10 (as claimed): every invocation ends with exactly one response, of
\* status 200, 400 or 500; an exception raised in the handler becomes a 500
\* with success: false and the error's message.
C10_Original ==
  \A i \in Slots :
    /\ Len(responses[i]) = (IF Done(i) THEN 1 ELSE 0)
    /\ Done(i) =>
         /\ Response(i).status \in {200, 400, 500}
         /\ \A e \in RaisedErrors(i) :
              /\ Response(i).status = 500
              /\ Response(i).body.success = FALSE
              /\ Response(i).body.error = e.message

\* C10 (amended): the same, the error field being the error's message or,
\* when the error has no message, "Internal error".
C10_OneResponse ==
  \A i \in Slots :
    /\ Len(responses[i]) = (IF Done(i) THEN 1 ELSE 0)
    /\ Done(i) =>
         /\ Response(i).status \in {200, 400, 500}
         /\ Response(i).body.success = (Response(i).status = 200)
         /\ \A e \in RaisedErrors(i) :
              /\ Response(i).status = 500
              /\ Response(i).body.success = FALSE
              /\ Response(i).body.error =
                   IF e.message = <<>> THEN <<"Internal error">> ELSE e.message

\* a rejected createDocument ended in a 500 with the error's message
C10_Witness ==
  \E i \in Slots :
    /\ Done(i)
    /\ dbReplies[i] # <<>> /\ ~dbReplies[i][1].ok
    /\ Response(i).status = 500
    /\ Response(i).body.error = dbReplies[i][1].err.message

(* ------------------------------- C11 ---------------------------------- *)

\* the questionId of the payload of a valid request
PayloadQuestionId(b) == b.value.questionId

\* the record carries the payload's questionId, null when it is omitted or null
CarriesQuestionId(b, data) ==
  data.questionId =
    IF PayloadQuestionId(b) \in {Undefined, Null} THEN Null
    ELSE PayloadQuestionId(b)

\* C11: when questionId is omitted from the payload or is null the persisted
\* record's questionId is null; when it is a populated value the record
\* carries that same value unchanged.
C11_QuestionId ==
  \A i \in Slots :
    /\ \A k \in 1..Len(dbCalls[i]) : CarriesQuestionId(req[i], dbCalls[i][k].data)
    /\ \A k \in 1..Len(Stored(i)) : CarriesQuestionId(req[i], Stored(i)[k].data)

\* a record was stored for a payload without questionId, with questionId null
C11_Witness ==
  \E i \in Slots :
    /\ Len(Stored(i)) = 1
    /\ PayloadQuestionId(req[i]) = Undefined
    /\ Stored(i)[1].data.questionId = Null

\* a record was stored for a payload with a questionId, carrying it
QuestionIdStored ==
  \E i \in Slots :
    /\ Len(Stored(i)) = 1
    /\ PayloadQuestionId(req[i]) = Str("q1")
    /\ Stored(i)[1].data.questionId = Str("q1")

(* ------------------------------- C12 ---------------------------------- *)

\* every attempt of fn but the last one made has failed, so a success is the
\* last attempt and no attempt follows it
EarlierAttemptsFailed(i) ==
  /\ Len(nluReplies[i]) <= Len(nluCalls[i])
  /\ Len(nluCalls[i]) <= Len(nluReplies[i]) + 1
  /\ \A k \in 1..Len(nluReplies[i]) :
       nluReplies[i][k].ok => k = Len(nluCalls[i])

\* a success ends withRetry with that attempt's result
ReturnsFirstSuccess(i) ==
  NluSucceeded(i) =>
    /\ pc[i] \in {"db", "done"}
    /\ loc[i].data = ExpectedData(i, NluResult(i), loc[i].data)

\* every attempt failed: the error thrown is the one of the last attempt
ThrowsLastError(i) ==
  (/\ Len(nluReplies[i]) = RetryAttempts
   /\ \A k \in 1..RetryAttempts : ~nluReplies[i][k].ok)
  => /\ Done(i)
     /\ loc[i].lastErr = nluReplies[i][RetryAttempts].err
     /\ responses[i] = <<CatchResponse(nluReplies[i][RetryAttempts].err)>>
     /\ dbCalls[i] = <<>>

\* a failure of an attempt that is not the last one is followed by the delay,
\* whatever the failure is
DelaysAfterFailure(i) ==
  (/\ nluReplies[i] # <<>>
   /\ Len(nluReplies[i]) < RetryAttempts
   /\ ~nluReplies[i][Len(nluReplies[i])].ok
   /\ Len(nluCalls[i]) = Len(nluReplies[i]))
  => /\ pc[i] = "delay"
     /\ loc[i].sleepMs = RetryDelayMs
     /\ loc[i].lastErr = nluReplies[i][Len(nluReplies[i])].err

\* a further attempt starts only from the delay that follows a failed attempt
AttemptStartsAfterDelay(i) ==
  (nluCalls[i] # <<>> /\ Len(nluCalls'[i]) > Len(nluCalls[i]))
  => /\ pc[i] = "delay"
     /\ Len(nluReplies[i]) = Len(nluCalls[i])
     /\ ~nluReplies[i][Len(nluReplies[i])].ok
     /\ Len(nluCalls'[i]) = Len(nluCalls[i]) + 1

WithRetryState ==
  \A i \in Slots :
    /\ Len(nluCalls[i]) <= RetryAttempts
    /\ EarlierAttemptsFailed(i)
    /\ ReturnsFirstSuccess(i)
    /\ ThrowsLastError(i)
    /\ DelaysAfterFailure(i)

\* C12: withRetry calls fn at most `attempts` (2) times, starts attempt i+1
\* only after attempt i has failed and the delay has elapsed, stops at the
\* first success with that attempt's result, retries on every kind of failure
\* alike, and when all attempts fail throws the error of the last attempt.
C12_WithRetry ==
  /\ []WithRetryState
  /\ [][\A i \in Slots : AttemptStartsAfterDelay(i)]_vars

\* both attempts failed with different errors and the response carries the
\* message of the second
C12_Witness ==
  \E i \in Slots :
    /\ Done(i)
    /\ Len(nluReplies[i]) = RetryAttempts
    /\ ~nluReplies[i][1].ok /\ ~nluReplies[i][2].ok
    /\ nluReplies[i][1].err = Error("Error", <<"ETIMEDOUT">>)
    /\ nluReplies[i][2].err = Error("Error", <<"Forbidden">>)
    /\ Response(i).body.error = <<"Forbidden">>

(* ------------------------------- C13 ---------------------------------- *)

\* createDocument of invocation i was rejected
WriteFailed(i) == \E k \in 1..Len(dbReplies[i]) : ~dbReplies[i][k].ok

\* one write at most, and a rejected write ends the invocation with a 500
WriteOnce(i) ==
  /\ Len(dbCalls[i]) <= 1
  /\ WriteFailed(i) =>
       /\ Done(i)
       /\ Len(dbCalls[i]) = 1 /\ Len(dbReplies[i]) = 1
       /\ Stored(i) = <<>>
       /\ Len(responses[i]) = 1
       /\ Response(i).status = 500
       /\ Response(i) = CatchResponse(dbReplies[i][1].err)
       /\ Len(nluReplies[i]) = Len(nluCalls[i])

\* after a rejected write the invocation issues no call
NoCallAfterWriteFailed(i) ==
  WriteFailed(i) =>
    /\ Len(nluCalls'[i]) <= Len(nluCalls[i])
    /\ Len(dbCalls'[i]) <= Len(dbCalls[i])

\* C13: the database write is attempted at most once per invocation and is
\* never retried: when createDocument fails the invocation responds 500 and
\* makes no further NLU call or database write, the NLU call already made
\* staying made.
C13_WriteNotRetried ==
  /\ [](\A i \in Slots : WriteOnce(i))
  /\ [][\A i \in Slots : NoCallAfterWriteFailed(i)]_vars

\* the write that followed a successful NLU call was rejected and the
\* invocation has answered 500
C13_Witness ==
  \E i \in Slots :
    /\ Done(i)
    /\ WriteFailed(i)
    /\ NluSucceeded(i)
    /\ Len(dbCalls[i]) = 1
    /\ Response(i).status = 500

(* ------------------------------- C14 ---------------------------------- *)

\* the external operations of invocation i that have started and not finished
NluInFlight(i) == Len(nluCalls[i]) - Len(nluReplies[i])

DbInFlight(i) == Len(dbCalls[i]) - Len(dbReplies[i])

DelayInFlight(i) == IF pc[i] = "delay" THEN 1 ELSE 0

InFlight(i) == NluInFlight(i) + DbInFlight(i) + DelayInFlight(i)

\* at most one operation in flight, and the handler waits for exactly that one
OneInFlight(i) ==
  /\ NluInFlight(i) \in {0, 1}
  /\ DbInFlight(i) \in {0, 1}
  /\ InFlight(i) <= 1
  /\ NluInFlight(i) = 1 <=> pc[i] = "nlu"
  /\ DbInFlight(i) = 1 <=> pc[i] = "db"

\* the invocation is on the path that analyses the text
FullPath(i) == ~(variant = "part" /\ ShortText(req[i]))

\* on the full path the write is issued after a successful NLU attempt
WriteFollowsAnalysis(i) ==
  (dbCalls[i] # <<>> /\ FullPath(i)) =>
    /\ NluSucceeded(i)
    /\ Len(nluReplies[i]) = Len(nluCalls[i])
    /\ dbCalls[i][1].data = ExpectedData(i, NluResult(i), dbCalls[i][1].data)

\* once the write has started no NLU request is issued
NoAnalysisAfterWrite(i) ==
  dbCalls[i] # <<>> => Len(nluCalls'[i]) <= Len(nluCalls[i])

\* C14: within one invocation at most one external operation (NLU request,
\* retry delay, database write) is in flight at any time; on the
\* full-analysis path the write is issued only after an NLU attempt has
\* succeeded; no NLU request is issued after the write has started.
C14_OneOperationInFlight ==
  /\ [](\A i \in Slots : OneInFlight(i) /\ WriteFollowsAnalysis(i))
  /\ [][\A i \in Slots : NoAnalysisAfterWrite(i)]_vars

\* the write is in flight, after a failed and a successful NLU attempt
C14_Witness ==
  \E i \in Slots :
    /\ pc[i] = "db"
    /\ DbInFlight(i) = 1
    /\ Len(nluCalls[i]) = 2
    /\ NluSucceeded(i)
    /\ InFlight(i) = 1

(* ------------------------------- C17 ---------------------------------- *)

\* a response of invocation i with this status has been sent
Sent(i, status) == \E k \in 1..Len(responses[i]) : responses[i][k].status = status

\* C17: a 200 response is sent only after a database write of this same
\* invocation has succeeded, and its analysisId is the identifier returned by
\* that write; a 400 response implies no database write was attempted in
\* that invocation.
C17_ResponseAndWrite ==
  \A i \in Slots :
    /\ \A k \in 1..Len(responses[i]) :
         responses[i][k].status = 200 =>
           /\ Len(dbCalls[i]) = 1
           /\ dbReplies[i] = Stored(i)
           /\ Len(Stored(i)) = 1
           /\ Stored(i)[1].data = dbCalls[i][1].data
           /\ responses[i][k].body.analysisId = Stored(i)[1].id
    /\ Sent(i, 400) => dbCalls[i] = <<>> /\ dbReplies[i] = <<>>

\* the second invocation of the process has answered 200 with the identifier
\* of its own write
C17_Witness ==
  \E i \in Slots :
    /\ started = 2
    /\ Sent(i, 200)
    /\ Len(Stored(i)) = 1
    /\ Stored(i)[1].id = 2
    /\ Response(i).body.analysisId = 2

\* an invocation has answered 400 without a write
RejectedWithoutWrite ==
  \E i \in Slots : Sent(i, 400) /\ dbCalls[i] = <<>>

(* ------------------------------- C16 ---------------------------------- *)

\* the client the code builds from the environment
WatsonClient ==
  [made |-> TRUE, cfg |-> <<env["WATSON_API_KEY"], env["WATSON_URL"]>>, built |-> 1]

DbClient ==
  [made |-> TRUE,
   cfg |-> <<env["APPWRITE_ENDPOINT"], env["APPWRITE_PROJECT_ID"],
             env["APPWRITE_API_KEY"]>>,
   built |-> 1]

\* invocation i has failed in the construction of a client that reads names
FailedConstruction(i, names) ==
  /\ Done(i)
  /\ Len(responses[i]) = 1
  /\ Response(i).status = 500
  /\ \E n \in names : Response(i).body.error = <<"Missing environment variable: ", n>>

\* each cache is null or holds the one client built so far; a cached client
\* is what the getter returns; a failed construction has left the cache null
\* and the next call of the getter constructs, and fails, again
CachedClients ==
  /\ watsonNLU \in {NoClient, WatsonClient}
  /\ appwriteDB \in {NoClient, DbClient}
  /\ watsonNLU.made =>
       getWatson(env, watsonNLU) = [threw |-> FALSE, err |-> NoError, client |-> watsonNLU]
  /\ appwriteDB.made =>
       getDB(env, appwriteDB) = [threw |-> FALSE, err |-> NoError, client |-> appwriteDB]
  /\ \A i \in Slots :
       /\ FailedConstruction(i, WatsonEnv) =>
            /\ watsonNLU = NoClient
            /\ getWatson(env, watsonNLU).threw
            /\ getWatson(env, watsonNLU).client = NoClient
       /\ FailedConstruction(i, ClientEnv) =>
            /\ appwriteDB = NoClient
            /\ getDB(env, appwriteDB).threw
            /\ getDB(env, appwriteDB).client = NoClient

\* a cached client is never replaced or reset
CacheIsKept ==
  /\ watsonNLU.made => watsonNLU' = watsonNLU
  /\ appwriteDB.made => appwriteDB' = appwriteDB

\* C16: across any sequence or interleaving of invocations in one process
\* each outbound client is successfully constructed at most once: a non-null
\* cached client is never replaced or reset, every later getWatson/getDB
\* returns that same client, and a construction that throws because a
\* configuration value is missing leaves the cache null, so that a later
\* invocation attempts construction again.
C16_ClientsBuiltOnce ==
  /\ []CachedClients
  /\ [][CacheIsKept]_vars

\* two invocations in progress have both passed getWatson and getDB and the
\* two clients have been built once
C16_Witness ==
  /\ \A i \in Slots : pc[i] = "db" /\ nluCalls[i] # <<>>
  /\ Cardinality(Slots) = 2
  /\ watsonNLU = WatsonClient
  /\ appwriteDB = DbClient

\* two invocations have failed in the construction of the NLU client
ConstructionAttemptedAgain ==
  /\ Cardinality(Slots) = 2
  /\ \A i \in Slots : FailedConstruction(i, WatsonEnv)
  /\ watsonNLU = NoClient

(* ------------------------------- C15 ---------------------------------- *)

\* the instants the clock gave invocation i: on entry (part_000's nowIso) and
\* when the NLU result arrived (index.js's processedAt)
EntryInstant(i) == IF loc[i].nowIso = Undefined THEN 0 ELSE loc[i].nowIso.n

AnalyzeInstant(i) ==
  IF "processedAt" \in DOMAIN loc[i].data THEN loc[i].data.processedAt.n ELSE 0

\* an invocation running alone: what it has done so far
Alone(o) ==
  [pc |-> o.pc, loc |-> o.loc, watson |-> o.watson, db |-> o.db,
   nluCalls |-> o.nlu, dbCalls |-> o.dbc, responses |-> o.resp]

AloneStep(s, o) ==
  [pc |-> o.pc, loc |-> o.loc, watson |-> o.watson, db |-> o.db,
   nluCalls |-> s.nluCalls \o o.nlu, dbCalls |-> s.dbCalls \o o.dbc,
   responses |-> s.responses \o o.resp]

\* the invocation alone in a fresh process is given the NLU answers nl and
\* the database answers dl, in this order, and runs as far as they take it
RECURSIVE RunAlone(_, _, _, _)
RunAlone(s, nl, dl, now) ==
  IF s.pc = "delay"
  THEN RunAlone(AloneStep(s, AfterDelay(variant, s.loc, s.watson, s.db)), nl, dl, now)
  ELSE IF s.pc = "nlu" /\ nl # <<>>
  THEN RunAlone(AloneStep(s, IF Head(nl).ok
                             THEN AfterAnalyze(variant, env, s.watson, s.db, s.loc,
                                               Head(nl).result, now)
                             ELSE AnalyzeRejected(RetryAttempts, RetryDelayMs, s.loc,
                                                  s.watson, s.db, Head(nl).err)),
                Tail(nl), dl, now)
  ELSE IF s.pc = "db" /\ dl # <<>>
  THEN RunAlone(AloneStep(s, IF Head(dl).ok
                             THEN AfterCreate(variant, s.loc, s.watson, s.db, Head(dl).id)
                             ELSE Thrown(Head(dl).err, s.loc, s.watson, s.db)),
                nl, Tail(dl), now)
  ELSE s

\* invocation i's payload and collaborator answers, given to it alone
AloneRun(i) ==
  RunAlone(Alone(HandlerEntry(variant, env, NoClient, NoClient, req[i], EntryInstant(i))),
           nluReplies[i], dbReplies[i], AnalyzeInstant(i))

\* what invocation i has sent and written is what it does alone
SameAsAlone(i) ==
  pc[i] \notin {"idle", "delay"} =>
    LET alone == AloneRun(i) IN
    /\ pc[i] = alone.pc
    /\ responses[i] = alone.responses
    /\ dbCalls[i] = alone.dbCalls
    /\ nluCalls[i] = alone.nluCalls

\* the state of one invocation
Invocation(i) ==
  <<pc[i], req[i], loc[i], nluCalls[i], nluReplies[i], dbCalls[i], dbReplies[i],
    responses[i]>>

\* a step of one invocation leaves the state of every other one as it is
OthersUntouched ==
  \E i \in Slots : \A j \in Slots \ {i} : Invocation(j)' = Invocation(j)

\* C15: for any interleaving of concurrent invocations within one process
\* under a fixed environment, each invocation's response and the record it
\* writes are the same as if that invocation ran alone with the same payload
\* and the same collaborator answers; the invocations share the two cached
\* clients only.
C15_Isolation ==
  /\ [](\A i \in Slots : SameAsAlone(i))
  /\ [][OthersUntouched /\ env' = env]_vars

\* two invocations with different payloads have interleaved: both have
\* answered 200, the one that started first having written last
C15_Witness ==
  \E i, j \in Slots :
    /\ i # j
    /\ req[i] # req[j]
    /\ Done(i) /\ Done(j)
    /\ Response(i).status = 200 /\ Response(j).status = 200
    /\ Len(Stored(i)) = 1 /\ Len(Stored(j)) = 1
    /\ nluCalls[i] # <<>> /\ nluCalls[j] # <<>>
    /\ AnalyzeInstant(i) < AnalyzeInstant(j)
    /\ Stored(j)[1].id < Stored(i)[1].id

====
